---------------------------- MODULE Spec2Model ----------------------------
(***************************************************************************)
(* A model of watermarkrm-auto.py.                                         *)
(*                                                                         *)
(* Two state machines share this module:                                   *)
(*   SpecImage  remove_watermark_from_image, one image from load to the    *)
(*              returned array, one step per stage of the function;        *)
(*   SpecBatch  main and the three pipeline steps it calls per document,   *)
(*              with the working folders and the output folder as state.   *)
(* A pixel is a tuple <<B, G, R>> of 8-bit values, as cv2 holds it.        *)
(***************************************************************************)
EXTENDS Integers, Sequences, FiniteSets

VARIABLES
    \* ---- remove_watermark_from_image
    img,                  \* the input array (never written after the copy)
    original_img,         \* img.copy()
    watermark_color_rgb,  \* <<>> is None
    i,                    \* the tolerance multiplier the loop adds next
    mask,
    iterations,           \* dilations of cv2.dilate done so far
    hsv_adjusted,
    result,
    refined_mask,
    text_mask,
    pc,
    \* ---- main
    debug,                \* args.debug
    pdf_files,            \* sorted(current_dir.glob("*.pdf")), as descriptors
    doc,                  \* index of the document the for loop is at
    step,                 \* position inside the loop body
    images_extracted,     \* folder: file name -> image
    images_cleaned,       \* folder: file name -> image
    image_data,           \* the list a step returned (silent mode)
    output                \* folder output/: document index -> pages

imageVars == <<img, original_img, watermark_color_rgb, i, mask, iterations,
               hsv_adjusted, result, refined_mask, text_mask, pc>>
batchVars == <<debug, pdf_files, doc, step, images_extracted, images_cleaned,
               image_data, output>>
vars == <<img, original_img, watermark_color_rgb, i, mask, iterations,
          hsv_adjusted, result, refined_mask, text_mask, pc,
          debug, pdf_files, doc, step, images_extracted, images_cleaned,
          image_data, output>>

(***************************************************************************)
(* Bounds of the model.                                                    *)
(***************************************************************************)
Height == 1
Width == 2
MaxDocs == 3
MaxPages == 2

Pix == (1..Height) \X (1..Width)

White == <<255, 255, 255>>
\* BGR colors the input pixels are drawn from: white paper, two red strokes
\* too dark for the refined mask (values 150 and 170), a pale pink (spread
\* 45) and a pale orange (spread 50).
Palette == {White, <<40, 40, 150>>, <<100, 100, 170>>, <<200, 200, 245>>,
            <<180, 200, 230>>}

Max2(a, b) == IF a >= b THEN a ELSE b
Min2(a, b) == IF a <= b THEN a ELSE b
Max3(c) == Max2(c[1], Max2(c[2], c[3]))
Min3(c) == Min2(c[1], Min2(c[2], c[3]))

RECURSIVE MaxOf(_)
MaxOf(S) == LET x == CHOOSE y \in S : TRUE
            IN  IF S = {x} THEN x ELSE Max2(x, MaxOf(S \ {x}))
RECURSIVE MinOf(_)
MinOf(S) == LET x == CHOOSE y \in S : TRUE
            IN  IF S = {x} THEN x ELSE Min2(x, MinOf(S \ {x}))

(***************************************************************************)
(* Color detection: the 8x8x8 histogram and the scan of its bins.          *)
(***************************************************************************)
Bins == (0..7) \X (0..7) \X (0..7)

\* cv2.calcHist over channels 0, 1, 2 of the BGR array, 8 bins over [0, 256)
BinOf(px) == <<px[1] \div 32, px[2] \div 32, px[3] \div 32>>
hist(image, b) == Cardinality({p \in Pix : BinOf(image[p]) = b})

\* (r, g, b) as the loop body names them: unravel_index's first index feeds r
BinCenter(b) == <<b[1] * 32 + 16, b[2] * 32 + 16, b[3] * 32 + 16>>

DarkSum == 150
GrayDiff == 20
PassesFilters(c) ==
    /\ ~ (c[1] + c[2] + c[3] < DarkSum)
    /\ ~ (Max3(c) - Min3(c) < GrayDiff)

PassingBins == {b \in Bins : PassesFilters(BinCenter(b))}

\* The bins that hold a pixel
Populated(image) == {BinOf(image[p]) : p \in Pix}

\* The highest frequency of a bin that passes the filters (an empty bin has 0)
TopPassing(image) ==
    LET S == {hist(image, b) : b \in Populated(image) \cap PassingBins}
    IN  IF S = {} THEN 0 ELSE MaxOf(S)
\* The passing bins of frequency top: empty bins for 0, else populated ones
BinsAt(image, top) ==
    IF top = 0 THEN PassingBins \ Populated(image)
    ELSE {b \in Populated(image) \cap PassingBins : hist(image, b) = top}

\* The bins the scan can stop at. The scan runs over all 512 bins, the empty
\* ones too, in descending frequency, and stops at the first that passes: a
\* passing bin that no passing bin beats. argsort leaves the order of equal
\* frequencies open, so any of those.
FirstPassingBins(image) == BinsAt(image, TopPassing(image))

Fallback == <<230, 230, 230>>

DetectColor ==
    /\ pc = "Loaded"
    /\ LET found == FirstPassingBins(img)
       IN  IF found = {}
           THEN watermark_color_rgb' = Fallback
           ELSE \E b \in found : watermark_color_rgb' = BinCenter(b)
    /\ pc' = "ColorDetected"
    /\ UNCHANGED <<img, original_img, i, mask, iterations, hsv_adjusted,
                   result, refined_mask, text_mask>>
    /\ UNCHANGED batchVars

(***************************************************************************)
(* The tolerance mask.                                                     *)
(***************************************************************************)
tol == 80

\* target_bgr = [b, g, r] of (r, g, b) = watermark_color_rgb
TargetBgr(rgb) == <<rgb[3], rgb[2], rgb[1]>>

\* A build without np.clip: astype(np.uint8) wraps the bound
Clip_Wrap(x) == x % 256
\* np.clip(x, 0, 255)
Clip(x) == IF x < 0 THEN 0 ELSE IF x > 255 THEN 255 ELSE x

\* range(0, 3) in place of range(1, 4)
TolAt_OffByOne(k) == tol * (k - 1)
TolAt(k) == tol * k
lower_bgr(t, k) == [c \in 1..3 |-> Clip(t[c] - TolAt(k))]
upper_bgr(t, k) == [c \in 1..3 |-> Clip(t[c] + TolAt(k))]

\* A range mask that marks a hit with 128
RangeValue_128(inside) == IF inside THEN 128 ELSE 0
\* cv2.inRange: 255 where every channel lies in [lower, upper], else 0
RangeValue(inside) == IF inside THEN 255 ELSE 0
InBand(px, t, k) ==
    \A c \in 1..3 : lower_bgr(t, k)[c] <= px[c] /\ px[c] <= upper_bgr(t, k)[c]
inRange(image, t, k) == [p \in Pix |-> RangeValue(InBand(image[p], t, k))]

\* += on uint8 arrays wraps modulo 256
Add8(a, b) == (a + b) % 256
AddMask(m, n) == [p \in Pix |-> Add8(m[p], n[p])]

InitMask ==
    /\ pc = "ColorDetected"
    /\ mask' = inRange(img, TargetBgr(watermark_color_rgb), 1)
    /\ i' = 1
    /\ pc' = "Accumulating"
    /\ UNCHANGED <<img, original_img, watermark_color_rgb, iterations,
                   hsv_adjusted, result, refined_mask, text_mask>>
    /\ UNCHANGED batchVars

AccumulateBand ==
    /\ pc = "Accumulating"
    /\ i < 4
    /\ mask' = AddMask(mask, inRange(img, TargetBgr(watermark_color_rgb), i))
    /\ i' = i + 1
    /\ UNCHANGED <<img, original_img, watermark_color_rgb, iterations,
                   hsv_adjusted, result, refined_mask, text_mask, pc>>
    /\ UNCHANGED batchVars

\* The whole accumulation as a function of the image and the target
AccumulatedMask(image, t) ==
    AddMask(AddMask(AddMask(inRange(image, t, 1), inRange(image, t, 1)),
                    inRange(image, t, 2)), inRange(image, t, 3))

\* cv2.getStructuringElement(MORPH_ELLIPSE, (5, 5)), as offsets from the anchor
kernel == {o \in (-2..2) \X (-2..2) : o[1] \in -1..1 \/ o[2] = 0}
Under(p) == {q \in Pix : <<q[1] - p[1], q[2] - p[2]>> \in kernel}

\* Pixels beyond the border do not take part (cv2's default border value)
dilate(m) == [p \in Pix |-> MaxOf({m[q] : q \in Under(p)})]
erode(m) == [p \in Pix |-> MinOf({m[q] : q \in Under(p)})]
morphClose(m) == erode(dilate(m))

RECURSIVE SumOver(_, _)
SumOver(m, S) == IF S = {} THEN 0
                 ELSE LET p == CHOOSE q \in S : TRUE
                      IN  m[p] + SumOver(m, S \ {p})

\* Line 185: cv2.morphologyEx(mask, cv2.MORPH_CLOSE, kernel, iterations=1)
CloseMask ==
    /\ pc = "Accumulating"
    /\ i = 4
    /\ mask' = morphClose(mask)
    /\ iterations' = 0
    /\ pc' = "Dilating"
    /\ UNCHANGED <<img, original_img, watermark_color_rgb, i, hsv_adjusted,
                   result, refined_mask, text_mask>>
    /\ UNCHANGED batchVars

\* Line 186: cv2.dilate(mask, kernel, iterations=5), one dilation a step (the
\* kernel is no full rectangle, so cv2 applies it five times)
DilateMask ==
    /\ pc = "Dilating"
    /\ iterations < 5
    /\ mask' = dilate(mask)
    /\ iterations' = iterations + 1
    /\ UNCHANGED <<img, original_img, watermark_color_rgb, i, hsv_adjusted,
                   result, refined_mask, text_mask, pc>>
    /\ UNCHANGED batchVars

\* Lines 188-192: the empty-mask return
CheckMask ==
    /\ pc = "Dilating"
    /\ iterations = 5
    /\ IF SumOver(mask, Pix) = 0
       THEN /\ result' = original_img
            /\ pc' = "ShortCircuitUnchanged"
       ELSE /\ result' = result
            /\ pc' = "MaskBuilt"
    /\ UNCHANGED <<img, original_img, watermark_color_rgb, i, mask, iterations,
                   hsv_adjusted, refined_mask, text_mask>>
    /\ UNCHANGED batchVars

(***************************************************************************)
(* cv2.cvtColor between BGR and 8-bit HSV (H in 0..179, S and V in 0..255).*)
(***************************************************************************)
\* cvRound of a quotient of naturals (no quotient used here ends in .5)
RoundDiv(a, b) == (2 * a + b) \div (2 * b)
hsv_shift == 12
sdiv_table(v) == IF v = 0 THEN 0 ELSE RoundDiv(255 * 2^hsv_shift, v)
hdiv_table(d) == IF d = 0 THEN 0 ELSE RoundDiv(180 * 2^hsv_shift, 6 * d)

\* COLOR_BGR2HSV on one pixel; >> on a negative int is the floor \div gives
BGR2HSV(px) ==
    LET b == px[1]
        g == px[2]
        r == px[3]
        v == Max3(px)
        diff == v - Min3(px)
        s == (diff * sdiv_table(v) + 2^(hsv_shift - 1)) \div 2^hsv_shift
        h0 == IF v = r THEN g - b
              ELSE IF v = g THEN b - r + 2 * diff
              ELSE r - g + 4 * diff
        h1 == (h0 * hdiv_table(diff) + 2^(hsv_shift - 1)) \div 2^hsv_shift
        h == IF h1 < 0 THEN h1 + 180 ELSE h1
    IN  <<h, s, v>>

\* COLOR_HSV2BGR on one pixel: the sector of the hue picks each channel from
\* v, v(1-s), v(1-s*f), v(1-s*(1-f)) with s = S/255 and f the hue's fraction
\* of its sector, rounded to the nearest 8-bit value.
HSV2BGR(c) ==
    LET h == c[1] % 180
        sector == h \div 30
        f == h % 30
        den == 255 * 30
        tab == <<c[3],
                 RoundDiv(c[3] * (255 - c[2]) * 30, den),
                 RoundDiv(c[3] * (den - c[2] * f), den),
                 RoundDiv(c[3] * (den - c[2] * (30 - f)), den)>>
        sector_data == <<<<1, 3, 0>>, <<1, 0, 2>>, <<3, 0, 1>>,
                         <<0, 2, 1>>, <<0, 1, 3>>, <<2, 1, 0>>>>
        pick == sector_data[sector + 1]
    IN  <<tab[pick[1] + 1], tab[pick[2] + 1], tab[pick[3] + 1]>>

(***************************************************************************)
(* Refinement of the mask and compositing.                                 *)
(***************************************************************************)
RECURSIVE BitAnd(_, _)
BitAnd(a, b) == IF a = 0 \/ b = 0 THEN 0
                ELSE (a % 2) * (b % 2) + 2 * BitAnd(a \div 2, b \div 2)
BitNot(a) == 255 - a

SatLimit == 30
ValLimit == 175

\* hsv_adjusted[mask > 0, 1] = 0
Desaturate(hsv, m) == IF m > 0 THEN <<hsv[1], 0, hsv[3]>> ELSE hsv

\* refined_mask = mask.copy(); zeroed where sat > 30, zeroed where val < 175
RefinedValue(m, hsv) ==
    IF hsv[2] > SatLimit THEN 0 ELSE IF hsv[3] < ValLimit THEN 0 ELSE m

\* bitwise_and without the bitwise_not
TextValue_NoNot(m, r) == BitAnd(m, r)
\* cv2.bitwise_and(mask, cv2.bitwise_not(refined_mask)) on one pixel
TextValue(m, r) == BitAnd(m, BitNot(r))

\* Lines 194-211
RefineMask ==
    /\ pc = "MaskBuilt"
    /\ LET adj == [p \in Pix |-> Desaturate(BGR2HSV(img[p]), mask[p])]
           ref == [p \in Pix |-> RefinedValue(mask[p], adj[p])]
       IN  /\ hsv_adjusted' = adj
           /\ result' = [p \in Pix |-> HSV2BGR(adj[p])]
           /\ refined_mask' = ref
           /\ text_mask' = [p \in Pix |-> TextValue(mask[p], ref[p])]
    /\ pc' = "MaskRefined"
    /\ UNCHANGED <<img, original_img, watermark_color_rgb, i, mask, iterations>>
    /\ UNCHANGED batchVars

\* Line 213: result[text_mask > 0] = original_img[text_mask > 0]
CopyText ==
    /\ pc = "MaskRefined"
    /\ result' = [p \in Pix |-> IF text_mask[p] > 0 THEN original_img[p]
                                ELSE result[p]]
    /\ pc' = "TextCopied"
    /\ UNCHANGED <<img, original_img, watermark_color_rgb, i, mask, iterations,
                   hsv_adjusted, refined_mask, text_mask>>
    /\ UNCHANGED batchVars

WhitenDiff == 50
Spread(px) == Max3(px) - Min3(px)
\* > in place of >=
keep_mask_Strict(px) == Spread(px) > WhitenDiff
\* keep_mask of a pixel taken from original_img[refined_mask > 0]
keep_mask(px) == Spread(px) >= WhitenDiff
\* A loop over the whole image in place of refined_mask > 0
ShouldModify_Everywhere(p, refined, original) == keep_mask(original[p])
\* The pixels the loop of lines 231-234 writes
ShouldModify(p, refined, original) ==
    refined[p] > 0 /\ keep_mask(original[p])

\* Lines 226-242
Whiten ==
    /\ pc = "TextCopied"
    /\ result' = [p \in Pix |->
                    IF ShouldModify(p, refined_mask, original_img)
                    THEN White ELSE result[p]]
    /\ pc' = "Composited"
    /\ UNCHANGED <<img, original_img, watermark_color_rgb, i, mask, iterations,
                   hsv_adjusted, refined_mask, text_mask>>
    /\ UNCHANGED batchVars

NoArray == <<>>

InitBatchIdle ==
    /\ debug = FALSE
    /\ pdf_files = <<>>
    /\ doc = 1
    /\ step = "done"
    /\ images_extracted = <<>>
    /\ images_cleaned = <<>>
    /\ image_data = <<>>
    /\ output = <<>>

InitImage ==
    /\ img \in [Pix -> Palette]
    /\ original_img = img
    /\ watermark_color_rgb = <<>>
    /\ i = 0
    /\ mask = NoArray
    /\ iterations = 0
    /\ hsv_adjusted = NoArray
    /\ result = NoArray
    /\ refined_mask = NoArray
    /\ text_mask = NoArray
    /\ pc = "Loaded"
    /\ InitBatchIdle

NextImage ==
    \/ DetectColor
    \/ InitMask
    \/ AccumulateBand
    \/ CloseMask
    \/ DilateMask
    \/ CheckMask
    \/ RefineMask
    \/ CopyText
    \/ Whiten

SpecImage == InitImage /\ [][NextImage]_vars


(***************************************************************************)
(* main: the loop over the documents of the current directory.             *)
(***************************************************************************)
\* A document of the directory: whether fitz.open succeeds on it, its page
\* count, and the pages whose rendering raises.
Documents ==
    {[opens |-> FALSE, pages |-> 1, fails |-> {}]} \cup
    UNION {{[opens |-> TRUE, pages |-> n, fails |-> F] : F \in SUBSET (1..n)} :
             n \in 1..MaxPages}
Batches == UNION {[1..n -> Documents] : n \in 1..MaxDocs}

\* Images, by what they show: page k of document d as rendered, the same
\* page after remove_watermark_from_image, or the white placeholder.
Blank == <<"blank">>
Rendered(d, k) == <<"page", d, k>>
Cleaned(d, k) == <<"clean", d, k>>
\* The white placeholder leaves remove_watermark_from_image white
remove_watermark_from_image(x) ==
    IF x = Blank THEN Blank ELSE Cleaned(x[2], x[3])

\* f"{page_num + 1:03d}": the decimal digits, zero-padded to three at least
RECURSIVE Digits(_)
Digits(n) == IF n < 10 THEN <<n>> ELSE Append(Digits(n \div 10), n % 10)
PageName(k) ==
    LET ds == Digits(k)
    IN  IF Len(ds) = 1 THEN <<0, 0>> \o ds
        ELSE IF Len(ds) = 2 THEN <<0>> \o ds
        ELSE ds

\* The order sorted() gives file names: character by character
RECURSIVE NameLess(_, _)
NameLess(a, b) ==
    IF a = <<>> THEN b # <<>>
    ELSE IF b = <<>> THEN FALSE
    ELSE IF Head(a) # Head(b) THEN Head(a) < Head(b)
    ELSE NameLess(Tail(a), Tail(b))
RECURSIVE SortedNames(_)
SortedNames(S) ==
    IF S = {} THEN <<>>
    ELSE LET least == CHOOSE a \in S : \A b \in S \ {a} : NameLess(a, b)
         IN  <<least>> \o SortedNames(S \ {least})

\* Lines 18-113. A failed open ends in sys.exit(1): SystemExit is no
\* Exception, the handler of main lets it through and the run ends.
extract_pdf_to_images ==
    /\ step = "extract"
    /\ LET d == pdf_files[doc]
           ok == (1..d.pages) \ d.fails
       IN  IF ~ d.opens
           THEN /\ step' = "exited"
                /\ UNCHANGED <<images_extracted, image_data>>
           ELSE /\ step' = "process"
                /\ IF debug
                   THEN /\ images_extracted' =
                             [n \in {PageName(k) : k \in ok} |->
                                Rendered(doc, CHOOSE k \in ok : PageName(k) = n)]
                        /\ image_data' =
                             [k \in 1..d.pages |->
                                IF k \in ok THEN PageName(k) ELSE Blank]
                   ELSE /\ images_extracted' = images_extracted
                        /\ image_data' =
                             [k \in 1..d.pages |->
                                IF k \in ok THEN Rendered(doc, k) ELSE Blank]
    /\ UNCHANGED <<debug, pdf_files, doc, images_cleaned, output>>
    /\ UNCHANGED imageVars

\* Lines 245-292
process_images_in_folder ==
    /\ step = "process"
    /\ IF debug
       THEN LET image_files == SortedNames(DOMAIN images_extracted)
            IN  IF Len(image_files) = 0
                THEN /\ image_data' = <<>>
                     /\ images_cleaned' = images_cleaned
                ELSE /\ image_data' = image_files
                     /\ images_cleaned' =
                          [n \in DOMAIN images_cleaned \cup DOMAIN images_extracted |->
                             IF n \in DOMAIN images_extracted
                             THEN remove_watermark_from_image(images_extracted[n])
                             ELSE images_cleaned[n]]
       ELSE /\ image_data' =
                 [k \in 1..Len(image_data) |->
                    remove_watermark_from_image(image_data[k])]
            /\ images_cleaned' = images_cleaned
    /\ step' = "rebuild"
    /\ UNCHANGED <<debug, pdf_files, doc, images_extracted, output>>
    /\ UNCHANGED imageVars

\* The pages rebuild_pdf_from_images saves, <<>> when it saves nothing (no
\* file found: return False; an empty list: IndexError, caught by main)
pil_images ==
    IF debug
    THEN LET image_files == SortedNames(DOMAIN images_cleaned)
         IN  [k \in 1..Len(image_files) |-> images_cleaned[image_files[k]]]
    ELSE image_data

\* Lines 295-351, and the step of the for loop of main to the next document
rebuild_pdf_from_images ==
    /\ step = "rebuild"
    /\ output' = IF pil_images = <<>> THEN output
                 ELSE [d \in DOMAIN output \cup {doc} |->
                         IF d = doc THEN pil_images ELSE output[d]]
    /\ doc' = doc + 1
    /\ step' = IF doc + 1 > Len(pdf_files) THEN "done" ELSE "extract"
    /\ UNCHANGED <<debug, pdf_files, images_extracted, images_cleaned,
                   image_data>>
    /\ UNCHANGED imageVars

InitImageIdle ==
    /\ img = NoArray
    /\ original_img = NoArray
    /\ watermark_color_rgb = <<>>
    /\ i = 0
    /\ mask = NoArray
    /\ iterations = 0
    /\ hsv_adjusted = NoArray
    /\ result = NoArray
    /\ refined_mask = NoArray
    /\ text_mask = NoArray
    /\ pc = "Idle"

\* main up to the for loop: the directory holds at least one document (else
\* main exits at line 394) and the working folders start out empty.
InitBatch ==
    /\ debug \in BOOLEAN
    /\ pdf_files \in Batches
    /\ doc = 1
    /\ step = "extract"
    /\ images_extracted = <<>>
    /\ images_cleaned = <<>>
    /\ image_data = <<>>
    /\ output = <<>>
    /\ InitImageIdle

NextBatch ==
    \/ extract_pdf_to_images
    \/ process_images_in_folder
    \/ rebuild_pdf_from_images

SpecBatch == InitBatch /\ [][NextBatch]_vars


(***************************************************************************)
(* Properties of remove_watermark_from_image, checked under SpecImage.     *)
(***************************************************************************)
target_bgr == TargetBgr(watermark_color_rgb)
AfterMorphology == {"MaskBuilt", "MaskRefined", "TextCopied", "Composited"}
\* From the end of the accumulation on, through the morphological steps
MaskAccumulated ==
    \/ pc = "Accumulating" /\ i = 4
    \/ pc \in {"Dilating"} \cup AfterMorphology
InMask(p) == mask[p] > 0
InRefined(p) == refined_mask[p] > 0
InText(p) == mask[p] > 0 /\ ~ (refined_mask[p] > 0)
Gray(v) == <<v, v, v>>

\* C1: once the text copy has run, and still after the whitening loop, every
\* pixel in Mask but not in RefinedMask holds its original value on all
\* three channels.
C1_TextPreserved ==
    pc \in {"TextCopied", "Composited"} =>
        \A p \in Pix : InText(p) => result[p] = original_img[p]

\* A returned image with a colorful text pixel (spread >= 50, changed by the
\* desaturation) kept as it was, next to a pixel the whitening loop wrote.
C1_Witness ==
    /\ pc = "Composited"
    /\ \E p \in Pix : /\ InText(p)
                      /\ Spread(original_img[p]) >= WhitenDiff
                      /\ HSV2BGR(hsv_adjusted[p]) # original_img[p]
                      /\ result[p] = original_img[p]
    /\ \E q \in Pix : /\ InRefined(q)
                      /\ result[q] = White
                      /\ original_img[q] # White

\* C4 (as stated): the detected color is the fallback or the center of a bin
\* holding a pixel of the image, and it is the fallback when no pixel lies in
\* a bin that passes the two filters.
C4_FallbackWhenNoPixelQualifies ==
    pc # "Loaded" =>
        /\ \/ watermark_color_rgb = Fallback
           \/ \E p \in Pix : BinCenter(BinOf(img[p])) = watermark_color_rgb
        /\ (\A p \in Pix : ~ PassesFilters(BinCenter(BinOf(img[p]))))
              => watermark_color_rgb = Fallback

AllWhite == \A p \in Pix : img[p] = White

\* C5 (as stated): for an all-white image the mask around (230,230,230) is
\* empty, processing ends at the empty-mask return, and the returned image
\* equals the input.
C5_WhiteShortCircuits ==
    (AllWhite /\ pc \in AfterMorphology \cup {"ShortCircuitUnchanged"}) =>
        /\ \A p \in Pix : AccumulatedMask(img, TargetBgr(Fallback))[p] = 0
        /\ pc = "ShortCircuitUnchanged"
        /\ result = img

\* C5 (amended): for an all-white image the mask around (230,230,230), and
\* the mask around the color the detection yields, has every pixel set; the
\* empty-mask return is not taken; refinement and compositing run and the
\* returned image equals the input.
C5_WhiteUnchanged ==
    AllWhite =>
        /\ \A p \in Pix : AccumulatedMask(img, TargetBgr(Fallback))[p] > 0
        /\ MaskAccumulated => \A p \in Pix : InMask(p)
        /\ pc # "ShortCircuitUnchanged"
        /\ pc = "Composited" => result = img

C5_Witness ==
    /\ AllWhite
    /\ pc = "Composited"
    /\ \A p \in Pix : InMask(p) /\ InRefined(p)
    /\ result = img

\* C6: in the returned image a RefinedMask pixel whose original spread is
\* >= 50 is (255,255,255), and one whose spread is < 50 has all three
\* channels equal to the maximum channel of the original pixel.
C6_WhitenOrDesaturate ==
    pc = "Composited" =>
        \A p \in Pix :
            InRefined(p) =>
                IF Spread(original_img[p]) >= 50
                THEN result[p] = White
                ELSE result[p] = Gray(Max3(original_img[p]))

\* Both cases in one image: a pixel of spread exactly 50 whitened, and a
\* colored pixel of smaller spread left desaturated.
C6_Witness ==
    /\ pc = "Composited"
    /\ \E p \in Pix : /\ InRefined(p)
                      /\ Spread(original_img[p]) = 50
                      /\ result[p] = White
    /\ \E q \in Pix : /\ InRefined(q)
                      /\ Spread(original_img[q]) \in 1..49
                      /\ result[q] = Gray(Max3(original_img[q]))
                      /\ result[q] # original_img[q]

\* C7: {refined_mask > 0} and {text_mask > 0} are disjoint and their union
\* is {mask > 0}; and for every 8-bit mask value m, the AND of m with the
\* NOT of the refined value is 0 where the refined value is m and m where
\* it is 0.
C7_EveryValue == \A m \in 0..255 : TextValue(m, m) = 0 /\ TextValue(m, 0) = m
C7_Partition ==
    /\ C7_EveryValue
    /\ pc \in {"MaskRefined", "TextCopied", "Composited"} =>
          \A p \in Pix :
              /\ ~ (refined_mask[p] > 0 /\ text_mask[p] > 0)
              /\ (refined_mask[p] > 0 \/ text_mask[p] > 0) <=> mask[p] > 0
              /\ refined_mask[p] \in {0, mask[p]}

\* A mask whose pixels hold a wrapped sum (not 255), split into a refined
\* and a text part.
C7_Witness ==
    /\ pc = "Composited"
    /\ \E p \in Pix : refined_mask[p] \in 1..254 /\ text_mask[p] = 0
    /\ \E q \in Pix : text_mask[q] \in 1..254 /\ refined_mask[q] = 0

\* The multipliers whose range mask the sum holds when the loop is at i
BandsAdded == IF i = 1 THEN {1} ELSE 1..(i - 1)
C8_Union ==
    pc = "Accumulating" =>
        \A p \in Pix :
            mask[p] # 0 <=> \E k \in BandsAdded : InBand(img[p], target_bgr, k)
C8_Grows ==
    (pc = "Accumulating" /\ pc' = "Accumulating") =>
        \A p \in Pix : mask[p] # 0 => mask'[p] # 0

\* C8: at every point of the accumulation (the band-1 mask, then multipliers
\* 1, 2 and 3 added modulo 256) a pixel's mask value is nonzero exactly when
\* the pixel lies in a band added so far, and adding a band never clears a
\* set pixel: the masks for {1}, {1,2}, {1,2,3} are nested.
C8_AccumulationIsUnion == [] C8_Union /\ [][C8_Grows]_vars

\* The sum has wrapped at one pixel (in bands 2 and 3: 510 mod 256) next to
\* a pixel that lies in band 3 only.
C8_Witness ==
    /\ pc = "Accumulating"
    /\ i = 4
    /\ \E p \in Pix : mask[p] = 254 /\ ~ InBand(img[p], target_bgr, 1)
    /\ \E q \in Pix : mask[q] = 255 /\ ~ InBand(img[q], target_bgr, 2)

DetectableColors == {BinCenter(b) : b \in Bins} \cup {Fallback}

\* C10: for every color the detection can yield, the multiplier-3 range is
\* [0,255] on each channel; the detected color is such a color; the mask
\* covers every pixel before and after the morphological steps; and the
\* empty-mask return is never taken.
C10_FullRange ==
    \A c \in DetectableColors : \A ch \in 1..3 :
        /\ lower_bgr(TargetBgr(c), 3)[ch] = 0
        /\ upper_bgr(TargetBgr(c), 3)[ch] = 255
C10_MaskCoversImage ==
    /\ C10_FullRange
    /\ pc # "Loaded" => watermark_color_rgb \in DetectableColors
    /\ MaskAccumulated => \A p \in Pix : InMask(p)
    /\ pc # "ShortCircuitUnchanged"

\* A target at both ends of the bin centers, and a pixel only band 3 reaches
C10_Witness ==
    /\ pc = "MaskBuilt"
    /\ \E c \in 1..3 : watermark_color_rgb[c] = 16
    /\ \E c \in 1..3 : watermark_color_rgb[c] = 240
    /\ \E p \in Pix : ~ InBand(img[p], target_bgr, 2)
    /\ \A p \in Pix : InMask(p)

(***************************************************************************)
(* Properties of main, checked under SpecBatch.                            *)
(***************************************************************************)
Ended == step \in {"done", "exited"}
Written(d) == d \in DOMAIN output
\* A document main can write: it opens, and a page of it reaches rebuild
Writable(d) ==
    /\ pdf_files[d].opens
    /\ debug => pdf_files[d].fails # 1..pdf_files[d].pages

\* C2 (as stated): when the run has ended and one document failed to open,
\* every other document, before it and after it, has its output written.
C2_OthersStillProcessed ==
    Ended =>
        \A bad \in 1..Len(pdf_files) :
            ~ pdf_files[bad].opens =>
                \A d \in (1..Len(pdf_files)) \ {bad} :
                    Writable(d) => Written(d)

\* C3 (as stated): a single document of N pages, in either mode, comes out
\* with N pages in page order, page k cleaned or, where page k failed to
\* render, the white placeholder.
C3_PagesKeepTheirPlace ==
    (step = "done" /\ Len(pdf_files) = 1 /\ pdf_files[1].opens) =>
        /\ Written(1)
        /\ output[1] = [k \in 1..pdf_files[1].pages |->
                          IF k \in pdf_files[1].fails THEN Blank
                          ELSE Cleaned(1, k)]

\* C9 (as stated): in debug mode every page of a written document was
\* produced from that document.
C9_NoForeignPages ==
    debug =>
        \A d \in DOMAIN output : \A k \in 1..Len(output[d]) :
            output[d][k] = Blank \/ output[d][k][2] = d

=============================================================================
